---- MODULE Spec2Model ----
(***************************************************************************)
(* Run orchestrator of services/verification-ui/app.py: the socket         *)
(* handlers run_script and run_all, the history file they append to, and   *)
(* the status queries computed from that file.                             *)
(*                                                                         *)
(* Every socket handler invocation runs in its own thread of control (a    *)
(* "caller"); its Python locals are the per-caller variables below.  The   *)
(* history file is the only state the callers share.  Wall-clock values    *)
(* (durations, completion timestamps) are left out; the start timestamp    *)
(* stored in a history entry is a logical clock reading.  The raw args     *)
(* string only extends the command line of the launched process, whose     *)
(* behaviour is an input of the model anyway, so it is not represented.    *)
(***************************************************************************)
EXTENDS Integers, Sequences, FiniteSets, TLC

(***************************************************************************)
(* Bound of the model.                                                     *)
(***************************************************************************)
MaxRuns == 2        \* script runs requested in one behaviour at most

Callers == {"c1", "c2"}

(***************************************************************************)
(* Text.  A string is a sequence of characters.                            *)
(***************************************************************************)
NL == "\n"
Whitespace == {" ", "\t", NL, "\r"}

ok == <<"o", "k">>
bad == <<"b", "a", "d">>
padded == <<"o", "k", " ">>

\* exit codes a script may end with
ExitCodes == {0, 2}

\* what a script may print in one run, line by line (without the line
\* terminators): nothing, one line, two different lines in either order, a
\* line that ends in a blank
LineSeqs == {<<>>, <<ok>>, <<bad>>, <<ok, bad>>, <<bad, ok>>, <<padded>>}

\* str.rstrip(): drop trailing whitespace
RECURSIVE rstrip(_)
rstrip(s) ==
    IF s = <<>> THEN <<>>
    ELSE IF s[Len(s)] \in Whitespace THEN rstrip(SubSeq(s, 1, Len(s) - 1))
    ELSE s

\* '\n'.join(lines)
RECURSIVE join(_)
join(lines) ==
    IF lines = <<>> THEN <<>>
    ELSE IF Len(lines) = 1 THEN lines[1]
    ELSE lines[1] \o <<NL>> \o join(Tail(lines))

\* str.split('\n'): always at least one piece
RECURSIVE split(_)
split(s) ==
    IF \A i \in 1..Len(s) : s[i] /= NL THEN <<s>>
    ELSE LET i == CHOOSE j \in 1..Len(s) :
                      s[j] = NL /\ \A m \in 1..(j - 1) : s[m] /= NL
         IN  <<SubSeq(s, 1, i - 1)>> \o split(SubSeq(s, i + 1, Len(s)))

\* what readline() returns for a printed line
RawLine(text) == text \o <<NL>>

(***************************************************************************)
(* Catalog.  VERIFICATION_SCRIPTS in dict (insertion) order; only the      *)
(* fields the handlers read are kept.  The handlers are run over small     *)
(* catalogs of the same shape.                                             *)
(***************************************************************************)
VERIFICATION_SCRIPTS ==
    << [id |-> "pre-deployment",    critical |-> TRUE],
       [id |-> "config-validation", critical |-> TRUE],
       [id |-> "service-health",    critical |-> TRUE],
       [id |-> "security-tests",    critical |-> TRUE],
       [id |-> "integration-tests", critical |-> FALSE],
       [id |-> "monitoring",        critical |-> FALSE],
       [id |-> "backup",            critical |-> FALSE] >>

\* the two-entry catalog of the specification's concrete scenario
ScenarioCatalog ==
    << [id |-> "A", critical |-> TRUE],
       [id |-> "B", critical |-> FALSE] >>

\* a catalog that has a non-critical entry between two critical ones
MixedCatalog ==
    << VERIFICATION_SCRIPTS[4], VERIFICATION_SCRIPTS[5], VERIFICATION_SCRIPTS[1] >>

Catalogs == {ScenarioCatalog, MixedCatalog}

CatalogIds(cat) == {cat[i].id : i \in 1..Len(cat)}

\* a script id no catalog has
UnknownId == "no-such-script"

RECURSIVE SelectCritical(_, _)
SelectCritical(cat, skip_non_critical) ==
    IF cat = <<>> THEN <<>>
    ELSE IF (~skip_non_critical) \/ cat[1].critical
         THEN <<cat[1].id>> \o SelectCritical(Tail(cat), skip_non_critical)
         ELSE SelectCritical(Tail(cat), skip_non_critical)

\* scripts_to_run that ignores the flag
scripts_to_run_all(cat, skip_non_critical) == SelectCritical(cat, FALSE)

\* scripts_to_run of handle_run_all
scripts_to_run(cat, skip_non_critical) == SelectCritical(cat, skip_non_critical)

(***************************************************************************)
(* History file.  The file's text is a sequence of JSON tokens: the        *)
(* opening bracket, one object per entry, the closing bracket.             *)
(***************************************************************************)
Open == [tok |-> "[", val |-> <<>>]
Close == [tok |-> "]", val |-> <<>>]
Obj(entry) == [tok |-> "obj", val |-> <<entry>>]

\* json.dump(history, f): the text written for a list of entries
dumps(history) ==
    <<Open>> \o [i \in 1..Len(history) |-> Obj(history[i])] \o <<Close>>

\* whether json.load accepts the text
Parses(text) ==
    /\ Len(text) >= 2
    /\ text[1] = Open
    /\ text[Len(text)] = Close
    /\ \A i \in 2..(Len(text) - 1) : text[i].tok = "obj"

\* json.load(f) on a text it accepts
loads(text) == [i \in 1..(Len(text) - 2) |-> text[i + 1].val[1]]

\* what the file holds after a writer that opened it with mode 'w' has
\* flushed new: the writer's offset is 0, so new overwrites the start of
\* whatever another writer has put there since the file was truncated
Overwrite(text, new) ==
    [i \in 1..(IF Len(text) > Len(new) THEN Len(text) ELSE Len(new)) |->
        IF i <= Len(new) THEN new[i] ELSE text[i]]

NoFile == [exists |-> FALSE, text |-> <<>>]

\* load_history that answers a file it cannot parse with an empty list
load_history_lenient(f) ==
    IF ~f.exists THEN [raised |-> FALSE, value |-> <<>>]
    ELSE IF Parses(f.text) THEN [raised |-> FALSE, value |-> loads(f.text)]
    ELSE [raised |-> FALSE, value |-> <<>>]

\* load_history(): the list it returns, or the exception it raises
load_history(f) ==
    IF ~f.exists THEN [raised |-> FALSE, value |-> <<>>]
    ELSE IF Parses(f.text) THEN [raised |-> FALSE, value |-> loads(f.text)]
    ELSE [raised |-> TRUE, value |-> <<>>]

(***************************************************************************)
(* Status queries.                                                         *)
(***************************************************************************)
\* get_latest_results(): scan newest first, keep the first entry per script
RECURSIVE LatestScan(_, _)
LatestScan(history, latest) ==
    IF history = <<>> THEN latest
    ELSE LET entry == history[Len(history)]
             rest == SubSeq(history, 1, Len(history) - 1)
         IN  IF \E e \in latest : e.script_id = entry.script_id
             THEN LatestScan(rest, latest)
             ELSE LatestScan(rest, latest \cup {entry})

\* get_latest_results that scans the list oldest first
get_latest_results_oldest(history) ==
    LatestScan([i \in 1..Len(history) |-> history[Len(history) + 1 - i]], {})

\* the values of the mapping get_latest_results returns, for a loaded history
get_latest_results(history) == LatestScan(history, {})

\* CountStatus that counts the scripts with a run of that status
CountStatus_scripts(history, st) ==
    Cardinality({history[i].script_id : i \in {j \in 1..Len(history) : history[j].status = st}})

\* len([h for h in history if h.get('status') == st])
CountStatus(history, st) ==
    Cardinality({i \in 1..Len(history) : history[i].status = st})

\* get_stats that takes only the scripts that passed for scripts that ran
get_stats_passed(history, cat) ==
    LET latest_results == get_latest_results(history)
        passing == {e \in latest_results : e.status = "passed"}
    IN  [total_runs |-> Len(history),
         total_passed |-> CountStatus(history, "passed"),
         total_failed |-> CountStatus(history, "failed"),
         passed |-> Cardinality(passing),
         failed |-> Cardinality({e \in latest_results : e.status = "failed"}),
         never_run |-> Len(cat) - Cardinality(passing),
         total_checks |-> Len(cat)]

\* get_stats that takes every run for a script that ran
get_stats_runs(history, cat) ==
    LET latest_results == get_latest_results(history)
    IN  [total_runs |-> Len(history),
         total_passed |-> CountStatus(history, "passed"),
         total_failed |-> CountStatus(history, "failed"),
         passed |-> Cardinality({e \in latest_results : e.status = "passed"}),
         failed |-> Cardinality({e \in latest_results : e.status = "failed"}),
         never_run |-> Len(cat) - Len(history),
         total_checks |-> Len(cat)]

\* get_stats(): the counters, for a loaded history
get_stats(history, cat) ==
    LET latest_results == get_latest_results(history)
    IN  [total_runs |-> Len(history),
         total_passed |-> CountStatus(history, "passed"),
         total_failed |-> CountStatus(history, "failed"),
         passed |-> Cardinality({e \in latest_results : e.status = "passed"}),
         failed |-> Cardinality({e \in latest_results : e.status = "failed"}),
         never_run |-> Len(cat) - Cardinality(latest_results),
         total_checks |-> Len(cat)]

(***************************************************************************)
(* State.                                                                  *)
(***************************************************************************)
VARIABLES
    catalog,        \* VERIFICATION_SCRIPTS of this deployment
    file,           \* HISTORY_FILE on disk
    clock,          \* logical time, read by datetime.now()
    nruns,          \* script runs requested so far
    pc,             \* per caller: where its handler is
    request,        \* per caller: the request being handled (or last handled)
    queue,          \* per caller: scripts_to_run not yet run
    script_id,      \* per caller: local of handle_run_script
    process,        \* per caller: the launched process: what it still prints, how it ends
    output_lines,   \* per caller: local of handle_run_script
    history_entry,  \* per caller: local of handle_run_script
    history,        \* per caller: local of handle_run_script (the list to save)
    events,         \* per caller: events emitted to it for its current request
    launched,       \* per caller: processes launched for its current request
    start_time,     \* per caller: local of handle_run_script
    path_exists,    \* per caller: what script_path.exists() returned
    before,         \* per caller: the history file when its current request arrived
    response        \* the answer sent by the step just taken, when it was an HTTP query

vars == <<catalog, file, clock, nruns, pc, request, queue, script_id, process,
          output_lines, history_entry, history, events, launched,
          start_time, path_exists, before, response>>

NoProcess == [lines |-> <<>>, exit |-> 0, readerr |-> FALSE]
NoEntry == [script_id |-> "", timestamp |-> 0, status |-> "", exit_code |-> 0,
            output |-> <<>>]
NoRequest == [kind |-> "none", script_id |-> "", skip_non_critical |-> FALSE]
NoQuery == [name |-> "none", script_id |-> "", limit |-> 0]
NoResponse == [status |-> 0, query |-> NoQuery, body |-> <<>>]

\* what a launched process does: the lines it prints, then either it exits
\* with a code or reading its output raises
Behaviours ==
    [lines : LineSeqs, exit : ExitCodes, readerr : {FALSE}]
        \cup [lines : LineSeqs, exit : {0}, readerr : {TRUE}]

Init ==
    /\ catalog \in Catalogs
    /\ file = NoFile
    /\ clock = 0
    /\ nruns = 0
    /\ pc = [c \in Callers |-> "idle"]
    /\ request = [c \in Callers |-> NoRequest]
    /\ queue = [c \in Callers |-> <<>>]
    /\ script_id = [c \in Callers |-> ""]
    /\ process = [c \in Callers |-> NoProcess]
    /\ output_lines = [c \in Callers |-> <<>>]
    /\ history_entry = [c \in Callers |-> NoEntry]
    /\ history = [c \in Callers |-> <<>>]
    /\ events = [c \in Callers |-> <<>>]
    /\ launched = [c \in Callers |-> <<>>]
    /\ start_time = [c \in Callers |-> 0]
    /\ path_exists = [c \in Callers |-> FALSE]
    /\ before = [c \in Callers |-> NoFile]
    /\ response = NoResponse

(***************************************************************************)
(* Events.                                                                 *)
(***************************************************************************)
\* a message is a sequence of its parts
ErrorInvalid == [type |-> "error", message |-> <<"Invalid script ID">>]
ErrorNotFound(id) == [type |-> "error", message |-> <<"Script not found: ", id>>]
ErrorRaised(id, e) == [type |-> "error", script_id |-> id, message |-> <<e>>]
Started(id) == [type |-> "script_started", script_id |-> id]
Output(id, line) == [type |-> "script_output", script_id |-> id, line |-> line]
Completed(id, status, exit_code) ==
    [type |-> "script_completed", script_id |-> id, status |-> status,
     exit_code |-> exit_code]
AllStarted(total) == [type |-> "all_started", total |-> total]
AllCompleted == [type |-> "all_completed"]

emit(evs, c, e) == [evs EXCEPT ![c] = Append(@, e)]

\* where a handler goes when handle_run_script returns
Return(c) == IF request[c].kind = "run_all" THEN "next" ELSE "idle"

(***************************************************************************)
(* handle_run_script.                                                      *)
(***************************************************************************)
\* Enter without the check that the script file exists
Enter_unchecked(c, id, exists, evs, ret) ==
    /\ script_id' = [script_id EXCEPT ![c] = id]
    /\ path_exists' = [path_exists EXCEPT ![c] = (id \in CatalogIds(catalog)) /\ exists]
    /\ IF id \notin CatalogIds(catalog)
       THEN /\ events' = [events EXCEPT ![c] = Append(evs, ErrorInvalid)]
            /\ pc' = [pc EXCEPT ![c] = ret]
            /\ UNCHANGED <<clock, start_time, output_lines>>
       ELSE /\ events' = [events EXCEPT ![c] = Append(evs, Started(id))]
            /\ clock' = clock + 1
            /\ start_time' = [start_time EXCEPT ![c] = clock + 1]
            /\ output_lines' = [output_lines EXCEPT ![c] = <<>>]
            /\ pc' = [pc EXCEPT ![c] = "popen"]

\* Entry of handle_run_script(id) up to the launch: the two validations and
\* the started event.  evs is the caller's event list so far, ret where the
\* handler continues when handle_run_script returns, exists whether the
\* script file is on disk.
Enter(c, id, exists, evs, ret) ==
    /\ script_id' = [script_id EXCEPT ![c] = id]
    /\ path_exists' = [path_exists EXCEPT ![c] = (id \in CatalogIds(catalog)) /\ exists]
    /\ IF id \notin CatalogIds(catalog)
       THEN /\ events' = [events EXCEPT ![c] = Append(evs, ErrorInvalid)]
            /\ pc' = [pc EXCEPT ![c] = ret]
            /\ UNCHANGED <<clock, start_time, output_lines>>
       ELSE IF ~exists
       THEN /\ events' = [events EXCEPT ![c] = Append(evs, ErrorNotFound(id))]
            /\ pc' = [pc EXCEPT ![c] = ret]
            /\ UNCHANGED <<clock, start_time, output_lines>>
       ELSE /\ events' = [events EXCEPT ![c] = Append(evs, Started(id))]
            /\ clock' = clock + 1
            /\ start_time' = [start_time EXCEPT ![c] = clock + 1]
            /\ output_lines' = [output_lines EXCEPT ![c] = <<>>]
            /\ pc' = [pc EXCEPT ![c] = "popen"]

\* Except that ends the whole request, also inside a batch
Except_abort(c, e) ==
    /\ events' = emit(events, c, ErrorRaised(script_id[c], e))
    /\ pc' = [pc EXCEPT ![c] = "idle"]

\* the except clause: emit('error') with str(e), then return
Except(c, e) ==
    /\ events' = emit(events, c, ErrorRaised(script_id[c], e))
    /\ pc' = [pc EXCEPT ![c] = Return(c)]

\* a run_script request arrives
RunScript(c) ==
    /\ pc[c] = "idle"
    /\ nruns < MaxRuns
    /\ \E id \in CatalogIds(catalog) \cup {UnknownId}, exists \in BOOLEAN :
          /\ request' = [request EXCEPT ![c] =
                 [kind |-> "run_script", script_id |-> id,
                  skip_non_critical |-> FALSE]]
          /\ Enter(c, id, exists, <<>>, "idle")
    /\ nruns' = nruns + 1
    /\ launched' = [launched EXCEPT ![c] = <<>>]
    /\ before' = [before EXCEPT ![c] = file]
    /\ response' = NoResponse
    /\ UNCHANGED <<catalog, file, queue, process, history_entry, history>>

\* Popen outside the try block: when it raises, the handler ends without an
\* event
Popen_uncaught(c) ==
    /\ pc[c] = "popen"
    /\ \/ /\ launched' = [launched EXCEPT ![c] = Append(@,
                 [script_id |-> script_id[c], spawned |-> FALSE,
                  behaviour |-> NoProcess])]
          /\ pc' = [pc EXCEPT ![c] = Return(c)]
          /\ UNCHANGED <<process, events>>
       \/ \E b \in Behaviours :
          /\ launched' = [launched EXCEPT ![c] = Append(@,
                 [script_id |-> script_id[c], spawned |-> TRUE,
                  behaviour |-> b])]
          /\ process' = [process EXCEPT ![c] = b]
          /\ pc' = [pc EXCEPT ![c] = "read"]
          /\ UNCHANGED events
    /\ response' = NoResponse
    /\ UNCHANGED <<catalog, file, clock, nruns, request, queue, script_id,
                   output_lines, history_entry, history, start_time,
                   before, path_exists>>

\* subprocess.Popen: it raises, or a process is running
Popen(c) ==
    /\ pc[c] = "popen"
    /\ \/ /\ launched' = [launched EXCEPT ![c] = Append(@,
                 [script_id |-> script_id[c], spawned |-> FALSE,
                  behaviour |-> NoProcess])]
          /\ Except(c, "OSError")
          /\ UNCHANGED process
       \/ \E b \in Behaviours :
          /\ launched' = [launched EXCEPT ![c] = Append(@,
                 [script_id |-> script_id[c], spawned |-> TRUE,
                  behaviour |-> b])]
          /\ process' = [process EXCEPT ![c] = b]
          /\ pc' = [pc EXCEPT ![c] = "read"]
          /\ UNCHANGED events
    /\ response' = NoResponse
    /\ UNCHANGED <<catalog, file, clock, nruns, request, queue, script_id,
                   output_lines, history_entry, history, start_time,
                   before,
                   path_exists>>

\* ReadLine that puts the new line in front of the captured ones
ReadLine_prepend(c) ==
    /\ pc[c] = "read"
    /\ process[c].lines /= <<>>
    /\ LET line == RawLine(Head(process[c].lines))
       IN  /\ output_lines' = [output_lines EXCEPT ![c] = <<rstrip(line)>> \o @]
           /\ events' = emit(events, c, Output(script_id[c], rstrip(line)))
    /\ process' = [process EXCEPT ![c].lines = Tail(@)]
    /\ response' = NoResponse
    /\ UNCHANGED <<catalog, file, clock, nruns, pc, request, queue, script_id,
                   history_entry, history, launched, start_time,
                   before,
                   path_exists>>

\* one iteration of the readline loop
ReadLine(c) ==
    /\ pc[c] = "read"
    /\ process[c].lines /= <<>>
    /\ LET line == RawLine(Head(process[c].lines))
       IN  /\ output_lines' = [output_lines EXCEPT ![c] = Append(@, rstrip(line))]
           /\ events' = emit(events, c, Output(script_id[c], rstrip(line)))
    /\ process' = [process EXCEPT ![c].lines = Tail(@)]
    /\ response' = NoResponse
    /\ UNCHANGED <<catalog, file, clock, nruns, pc, request, queue, script_id,
                   history_entry, history, launched, start_time,
                   before,
                   path_exists>>

\* ReadRaises that takes the read error for the end of the output and goes
\* on to record the run
ReadRaises_recorded(c) ==
    /\ pc[c] = "read"
    /\ process[c].lines = <<>>
    /\ process[c].readerr
    /\ history_entry' = [history_entry EXCEPT ![c] =
          [script_id |-> script_id[c],
           timestamp |-> start_time[c],
           status |-> "failed",
           exit_code |-> 2,
           output |-> join(output_lines[c])]]
    /\ pc' = [pc EXCEPT ![c] = "load"]
    /\ response' = NoResponse
    /\ UNCHANGED <<catalog, file, clock, nruns, request, queue, script_id,
                   process, output_lines, history, events, launched,
                   start_time, before, path_exists>>

\* readline raises
ReadRaises(c) ==
    /\ pc[c] = "read"
    /\ process[c].lines = <<>>
    /\ process[c].readerr
    /\ Except(c, "IOError")
    /\ response' = NoResponse
    /\ UNCHANGED <<catalog, file, clock, nruns, request, queue, script_id,
                   process, output_lines, history_entry, history, launched, start_time, before,
                   path_exists>>

\* StatusOf that takes every exit code that is not negative for a success
StatusOf_nonnegative(exit_code) == IF exit_code >= 0 THEN "passed" ELSE "failed"

\* status derived from the exit code
StatusOf(exit_code) == IF exit_code = 0 THEN "passed" ELSE "failed"

\* end of output, process.wait(), status, history_entry
ProcessExit(c) ==
    /\ pc[c] = "read"
    /\ process[c].lines = <<>>
    /\ ~process[c].readerr
    /\ history_entry' = [history_entry EXCEPT ![c] =
          [script_id |-> script_id[c],
           timestamp |-> start_time[c],
           status |-> StatusOf(process[c].exit),
           exit_code |-> process[c].exit,
           output |-> join(output_lines[c])]]
    /\ pc' = [pc EXCEPT ![c] = "load"]
    /\ response' = NoResponse
    /\ UNCHANGED <<catalog, file, clock, nruns, request, queue, script_id,
                   process, output_lines, history, events, launched,
                   start_time, before,
                   path_exists>>

\* LoadHistory that starts from an empty list instead of the loaded one
LoadHistory_fresh(c) ==
    /\ pc[c] = "load"
    /\ LET r == load_history(file)
       IN  IF r.raised
           THEN /\ Except(c, "JSONDecodeError")
                /\ UNCHANGED history
           ELSE /\ history' = [history EXCEPT ![c] = <<history_entry[c]>>]
                /\ pc' = [pc EXCEPT ![c] = "save"]
                /\ UNCHANGED events
    /\ response' = NoResponse
    /\ UNCHANGED <<catalog, file, clock, nruns, request, queue, script_id,
                   process, output_lines, history_entry, launched,
                   start_time, before, path_exists>>

\* history = load_history(); history.append(history_entry)
LoadHistory(c) ==
    /\ pc[c] = "load"
    /\ LET r == load_history(file)
       IN  IF r.raised
           THEN /\ Except(c, "JSONDecodeError")
                /\ UNCHANGED history
           ELSE /\ history' = [history EXCEPT ![c] = Append(r.value, history_entry[c])]
                /\ pc' = [pc EXCEPT ![c] = "save"]
                /\ UNCHANGED events
    /\ response' = NoResponse
    /\ UNCHANGED <<catalog, file, clock, nruns, request, queue, script_id,
                   process, output_lines, history_entry, launched,
                   start_time, before,
                   path_exists>>

\* save_history: open(HISTORY_FILE, 'w') creates or truncates the file
SaveOpen(c) ==
    /\ pc[c] = "save"
    /\ file' = [exists |-> TRUE, text |-> <<>>]
    /\ pc' = [pc EXCEPT ![c] = "write"]
    /\ response' = NoResponse
    /\ UNCHANGED <<catalog, clock, nruns, request, queue, script_id, process,
                   output_lines, history_entry, history, events, launched,
                   start_time, before, path_exists>>

\* SaveClose that writes the list as it was loaded, without the new entry
SaveClose_unappended(c) ==
    /\ pc[c] = "write"
    /\ file' = [file EXCEPT !.text =
          Overwrite(@, dumps(SubSeq(history[c], 1, Len(history[c]) - 1)))]
    /\ pc' = [pc EXCEPT ![c] = "saved"]
    /\ response' = NoResponse
    /\ UNCHANGED <<catalog, clock, nruns, request, queue, script_id, process,
                   output_lines, history_entry, history, events, launched,
                   start_time, before, path_exists>>

\* save_history: json.dump fills the file object's buffer; leaving the with
\* block flushes it to the file and closes it
SaveClose(c) ==
    /\ pc[c] = "write"
    /\ file' = [file EXCEPT !.text = Overwrite(@, dumps(history[c]))]
    /\ pc' = [pc EXCEPT ![c] = "saved"]
    /\ response' = NoResponse
    /\ UNCHANGED <<catalog, clock, nruns, request, queue, script_id, process,
                   output_lines, history_entry, history, events, launched,
                   start_time, before, path_exists>>

\* emit('script_completed') and return
EmitCompleted(c) ==
    /\ pc[c] = "saved"
    /\ events' = emit(events, c, Completed(script_id[c], history_entry[c].status,
                                           history_entry[c].exit_code))
    /\ pc' = [pc EXCEPT ![c] = Return(c)]
    /\ response' = NoResponse
    /\ UNCHANGED <<catalog, file, clock, nruns, request, queue, script_id,
                   process, output_lines, history_entry, history, launched, start_time, before,
                   path_exists>>

(***************************************************************************)
(* handle_run_all.                                                         *)
(***************************************************************************)
\* a run_all request arrives: scripts_to_run and the all_started event
RunAll(c) ==
    /\ pc[c] = "idle"
    /\ \E skip \in BOOLEAN :
          LET todo == scripts_to_run(catalog, skip)
          IN  /\ nruns + Len(todo) <= MaxRuns
              /\ nruns' = nruns + Len(todo)
              /\ request' = [request EXCEPT ![c] =
                     [kind |-> "run_all", script_id |-> "",
                      skip_non_critical |-> skip]]
              /\ queue' = [queue EXCEPT ![c] = todo]
              /\ events' = [events EXCEPT ![c] = <<AllStarted(Len(todo))>>]
    /\ launched' = [launched EXCEPT ![c] = <<>>]
    /\ before' = [before EXCEPT ![c] = file]
    /\ script_id' = [script_id EXCEPT ![c] = ""]
    /\ path_exists' = [path_exists EXCEPT ![c] = FALSE]
    /\ pc' = [pc EXCEPT ![c] = "next"]
    /\ response' = NoResponse
    /\ UNCHANGED <<catalog, file, clock, process, output_lines, history_entry,
                   history, start_time>>

\* RunNext that does not wait for the history write of the previous script
RunNext_early(c) ==
    /\ pc[c] \in {"next", "save"}
    /\ queue[c] /= <<>>
    /\ \E exists \in BOOLEAN :
          Enter(c, Head(queue[c]), exists, events[c], "next")
    /\ queue' = [queue EXCEPT ![c] = Tail(@)]
    /\ response' = NoResponse
    /\ UNCHANGED <<catalog, file, nruns, request, process, history_entry,
                   history, launched, before>>

\* the loop calls handle_run_script for the next script
RunNext(c) ==
    /\ pc[c] = "next"
    /\ queue[c] /= <<>>
    /\ \E exists \in BOOLEAN :
          Enter(c, Head(queue[c]), exists, events[c], "next")
    /\ queue' = [queue EXCEPT ![c] = Tail(@)]
    /\ response' = NoResponse
    /\ UNCHANGED <<catalog, file, nruns, request, process, history_entry,
                   history, launched, before>>

\* after the loop: the all_completed event
AllDone(c) ==
    /\ pc[c] = "next"
    /\ queue[c] = <<>>
    /\ events' = emit(events, c, AllCompleted)
    /\ pc' = [pc EXCEPT ![c] = "idle"]
    /\ response' = NoResponse
    /\ UNCHANGED <<catalog, file, clock, nruns, request, queue, script_id,
                   process, output_lines, history_entry, history, launched, start_time, before,
                   path_exists>>

(***************************************************************************)
(* HTTP queries.                                                           *)
(***************************************************************************)
\* request.args.get('limit', 50, type=int) of get_history and
\* request.args.get('limit', 20, type=int) of get_script_history
DefaultHistoryLimit == 50
DefaultScriptHistoryLimit == 20

\* the limits the queries are asked with: get_history with the default or
\* for one entry, get_script_history with the default
HistoryLimits == {DefaultHistoryLimit, 1}
ScriptHistoryLimits == {DefaultScriptHistoryLimit}

\* history[-limit:]
LastN(entries, limit) ==
    IF limit > 0
    THEN IF limit >= Len(entries) THEN entries
         ELSE SubSeq(entries, Len(entries) - limit + 1, Len(entries))
    ELSE IF limit = 0 THEN entries
    ELSE SubSeq(entries, 1 - limit, Len(entries))

\* the answer to a query: the body, or an internal error when load_history
\* raises
Answer(query, body) ==
    IF load_history(file).raised
    THEN [status |-> 500, query |-> query, body |-> <<>>]
    ELSE [status |-> 200, query |-> query, body |-> body]

\* what a query leaves alone
QueryFrame ==
    UNCHANGED <<catalog, file, clock, nruns, pc, request, queue, script_id,
                process, output_lines, history_entry, history, events,
                launched, start_time, before, path_exists>>

\* GetHistory that stores the log cut to the limit
GetHistory_trimming(limit) ==
    /\ response' = Answer([name |-> "history", script_id |-> "", limit |-> limit],
                          LastN(load_history(file).value, limit))
    /\ file' = IF load_history(file).raised THEN file
               ELSE [exists |-> TRUE,
                     text |-> dumps(LastN(load_history(file).value, limit))]
    /\ UNCHANGED <<catalog, clock, nruns, pc, request, queue, script_id,
                   process, output_lines, history_entry, history, events,
                   launched, start_time, before, path_exists>>

\* GET /api/history: the last limit entries of the log
GetHistory(limit) ==
    /\ response' = Answer([name |-> "history", script_id |-> "", limit |-> limit],
                          LastN(load_history(file).value, limit))
    /\ QueryFrame

\* GET /api/history/<script_id>: the last limit entries of that script
GetScriptHistory(id, limit) ==
    /\ LET loaded == load_history(file).value
           Test(entry) == entry.script_id = id
           script_history == SelectSeq(loaded, Test)
       IN  response' = Answer([name |-> "script_history", script_id |-> id,
                               limit |-> limit],
                              LastN(script_history, limit))
    /\ QueryFrame

\* GET /api/scripts: the catalog entries with the latest result of each; a
\* field that is None in the answer is the empty sequence here
GetScripts ==
    /\ LET latest_results == get_latest_results(load_history(file).value)
           Row(config) ==
               LET found == {e \in latest_results : e.script_id = config.id}
               IN  IF found = {}
                   THEN [id |-> config.id, critical |-> config.critical,
                         last_run |-> <<>>, last_status |-> "never_run",
                         exit_code |-> <<>>]
                   ELSE LET latest == CHOOSE e \in found : TRUE
                        IN  [id |-> config.id, critical |-> config.critical,
                             last_run |-> <<latest.timestamp>>,
                             last_status |-> latest.status,
                             exit_code |-> <<latest.exit_code>>]
       IN  response' = Answer([name |-> "scripts", script_id |-> "", limit |-> 0],
                              [i \in 1..Len(catalog) |-> Row(catalog[i])])
    /\ QueryFrame

\* GET /api/stats: the counters; both load_history calls of the handler read
\* the same file when requests are handled one at a time
GetStats ==
    /\ response' = Answer([name |-> "stats", script_id |-> "", limit |-> 0],
                          get_stats(load_history(file).value, catalog))
    /\ QueryFrame

(***************************************************************************)
(* Specifications.                                                         *)
(***************************************************************************)
Idle == \A c \in Callers : pc[c] = "idle"

Step(c) ==
    \/ Popen(c)
    \/ ReadLine(c)
    \/ ReadRaises(c)
    \/ ProcessExit(c)
    \/ LoadHistory(c)
    \/ SaveOpen(c)
    \/ SaveClose(c)
    \/ EmitCompleted(c)
    \/ RunNext(c)
    \/ AllDone(c)

\* requests are handled as they arrive, each by its own thread
Next ==
    \/ \E c \in Callers : RunScript(c)
    \/ \E c \in Callers : RunAll(c)
    \/ \E c \in Callers : Step(c)
    \/ GetHistory(DefaultHistoryLimit)

Spec == Init /\ [][Next]_vars

\* a single worker handles the requests one after the other
Worker == "c1"

NextSeq ==
    \/ Idle /\ RunScript(Worker)
    \/ Idle /\ RunAll(Worker)
    \/ Step(Worker)
    \/ Idle /\ GetHistory(DefaultHistoryLimit)

SpecSeq == Init /\ [][NextSeq]_vars

\* a record left in the file by an earlier deployment
StoredEntry == [script_id |-> "pre-deployment", timestamp |-> 0,
                status |-> "passed", exit_code |-> 0, output |-> <<>>]

\* history files json.load does not accept: an empty file and texts cut off
\* before the closing bracket
UnreadableFiles ==
    {[exists |-> TRUE, text |-> t] : t \in {<<>>, <<Open>>, <<Open, Obj(StoredEntry)>>}}

\* the service starts with no history file or with one it cannot parse
InitStored ==
    /\ catalog \in Catalogs
    /\ file \in {NoFile} \cup UnreadableFiles
    /\ clock = 0
    /\ nruns = 0
    /\ pc = [c \in Callers |-> "idle"]
    /\ request = [c \in Callers |-> NoRequest]
    /\ queue = [c \in Callers |-> <<>>]
    /\ script_id = [c \in Callers |-> ""]
    /\ process = [c \in Callers |-> NoProcess]
    /\ output_lines = [c \in Callers |-> <<>>]
    /\ history_entry = [c \in Callers |-> NoEntry]
    /\ history = [c \in Callers |-> <<>>]
    /\ events = [c \in Callers |-> <<>>]
    /\ launched = [c \in Callers |-> <<>>]
    /\ start_time = [c \in Callers |-> 0]
    /\ path_exists = [c \in Callers |-> FALSE]
    /\ before = [c \in Callers |-> file]
    /\ response = NoResponse

SpecStored == InitStored /\ [][NextSeq]_vars

\* the worker's thread keeps being scheduled and every launched process
\* comes to the end of its output: a handler step that can be taken is
\* eventually taken
SpecLive == Init /\ [][NextSeq]_vars /\ WF_vars(Step(Worker))

\* the single worker and every HTTP query, asked between the requests
NextQuery ==
    \/ Idle /\ RunScript(Worker)
    \/ Idle /\ RunAll(Worker)
    \/ Step(Worker)
    \/ Idle /\ \E limit \in HistoryLimits : GetHistory(limit)
    \/ Idle /\ \E id \in CatalogIds(catalog), limit \in ScriptHistoryLimits :
                  GetScriptHistory(id, limit)
    \/ Idle /\ GetScripts
    \/ Idle /\ GetStats

SpecQuery == Init /\ [][NextQuery]_vars

TypeOK ==
    /\ catalog \in Catalogs
    /\ nruns \in 0..MaxRuns
    /\ clock \in 0..MaxRuns
    /\ \A c \in Callers :
          pc[c] \in {"idle", "popen", "read", "load", "save", "write", "saved",
                     "next"}

(***************************************************************************)
(* Properties.                                                             *)
(***************************************************************************)
\* the HistoryLog a file holds (empty when the file is unreadable)
LogOf(f) == load_history(f).value

\* the HistoryLog on disk
Log == LogOf(file)

Last(s) == s[Len(s)]

Carries(e, id) == "script_id" \in DOMAIN e /\ e.script_id = id

\* the events of caller c that carry script id
EventsOf(c, id) ==
    LET Test(e) == Carries(e, id) IN SelectSeq(events[c], Test)

OfType(evs, t) ==
    LET Test(e) == e.type = t IN SelectSeq(evs, Test)

\* caller c handled a run_script request whose script file exists and whose
\* process exited with this code, and the handler has returned
SingleRunExited(c, code) ==
    /\ request[c].kind = "run_script"
    /\ pc[c] = "idle"
    /\ request[c].script_id \in CatalogIds(catalog)
    /\ path_exists[c]
    /\ launched[c] /= <<>>
    /\ launched[c][1].spawned
    /\ ~launched[c][1].behaviour.readerr
    /\ launched[c][1].behaviour.exit = code

\* C1: a run_script request for a catalog script whose file exists and whose
\* process exits with code 0 leaves the log on disk equal to the log from
\* before the request plus exactly one record, with that script id, status
\* passed and exit code 0, and has emitted exactly one started and exactly
\* one completed event, both with that script id.
C1_PassedRun ==
    \A c \in Callers :
        SingleRunExited(c, 0) =>
            LET id == request[c].script_id
                old == LogOf(before[c])
            IN  /\ ~load_history(file).raised
                /\ Len(Log) = Len(old) + 1
                /\ SubSeq(Log, 1, Len(old)) = old
                /\ Last(Log).script_id = id
                /\ Last(Log).status = "passed"
                /\ Last(Log).exit_code = 0
                /\ OfType(events[c], "script_started") = <<Started(id)>>
                /\ OfType(events[c], "script_completed") = <<Completed(id, "passed", 0)>>

\* a passed run that was appended to a log that already had a record
C1_Witness ==
    \E c \in Callers : SingleRunExited(c, 0) /\ LogOf(before[c]) /= <<>>

\* C2: a run_script request whose script id is not in the catalog, or whose
\* script file does not exist, emits exactly one error event and nothing
\* else, launches no process and leaves the history file as it was; a
\* script of a batch whose file does not exist gets one error event, no
\* started event and no process.
C2_Rejected ==
    \A c \in Callers :
        LET id == script_id[c]
        IN  /\ (request[c].kind = "run_script" /\ id \notin CatalogIds(catalog)) =>
                   /\ events[c] = <<ErrorInvalid>>
                   /\ launched[c] = <<>>
                   /\ pc[c] = "idle"
                   /\ file = before[c]
            /\ (request[c].kind = "run_script" /\ id \in CatalogIds(catalog)
                   /\ ~path_exists[c]) =>
                   /\ events[c] = <<ErrorNotFound(id)>>
                   /\ launched[c] = <<>>
                   /\ pc[c] = "idle"
                   /\ file = before[c]
            /\ (request[c].kind = "run_all" /\ id /= "" /\ ~path_exists[c]) =>
                   /\ EventsOf(c, id) = <<>>
                   /\ Len(OfType(events[c], "error")) >= 1
                   /\ Cardinality({i \in DOMAIN events[c] :
                                      events[c][i] = ErrorNotFound(id)}) = 1
                   /\ \A i \in DOMAIN launched[c] : launched[c][i].script_id /= id
                   /\ pc[c] \in {"idle", "next"}

\* a request for a missing script file was rejected while the log had a record
C2_Witness ==
    \E c \in Callers :
        /\ request[c].kind = "run_script"
        /\ script_id[c] \in CatalogIds(catalog)
        /\ ~path_exists[c]
        /\ events[c] = <<ErrorNotFound(script_id[c])>>
        /\ Log /= <<>>

IsNotFound(e) == e.type = "error" /\ Len(e.message) = 2

IsTerminal(e) == e.type \in {"script_completed", "error"}

\* the script ids handle_run_script was called with for caller c's current
\* request, in call order (every call emits a started or a not-found event)
Entered(c) ==
    LET Test(e) == e.type = "script_started" \/ IsNotFound(e)
        calls == SelectSeq(events[c], Test)
    IN  [i \in 1..Len(calls) |->
            IF calls[i].type = "script_started" THEN calls[i].script_id
            ELSE calls[i].message[2]]

\* position of a script id in the catalog
Pos(id) == CHOOSE i \in 1..Len(catalog) : catalog[i].id = id

IsPrefix(s, t) == Len(s) <= Len(t) /\ SubSeq(t, 1, Len(s)) = s

\* the records the current request of caller c has added to the log on disk
Added(c) == SubSeq(Log, Len(LogOf(before[c])) + 1, Len(Log))

\* C3: in a run_all request a started event directly follows all_started or
\* the terminal event (completed or error) of the previous script; every
\* output event directly follows the started event or an output event of the
\* same script; the scripts are entered in catalog order; and whenever the
\* file is not being rewritten, the records of the scripts of the batch that
\* have completed are in the log, in that order, after the records from
\* before the batch.
C3_Sequential ==
    \A c \in Callers :
        request[c].kind = "run_all" =>
            LET evs == events[c]
                done == OfType(evs, "script_completed")
            IN  /\ \A i \in DOMAIN evs :
                       evs[i].type = "script_started" =>
                           /\ i > 1
                           /\ evs[i - 1].type = "all_started" \/ IsTerminal(evs[i - 1])
                /\ \A i \in DOMAIN evs :
                       evs[i].type = "script_output" =>
                           /\ i > 1
                           /\ evs[i - 1].type \in {"script_started", "script_output"}
                           /\ evs[i - 1].script_id = evs[i].script_id
                /\ \A i, j \in DOMAIN Entered(c) :
                       i < j => Pos(Entered(c)[i]) < Pos(Entered(c)[j])
                /\ pc[c] /= "write" =>
                       /\ ~load_history(file).raised
                       /\ IsPrefix(LogOf(before[c]), Log)
                       /\ Len(Added(c)) \in {Len(done), Len(done) + 1}
                       /\ Len(Added(c)) = Len(done) + 1 => pc[c] = "saved"
                       /\ \A k \in DOMAIN done :
                              /\ Added(c)[k].script_id = done[k].script_id
                              /\ Added(c)[k].exit_code = done[k].exit_code

\* the second script of a batch has started after the first one completed
\* and printed something
C3_Witness ==
    \E c \in Callers :
        /\ request[c].kind = "run_all"
        /\ Len(OfType(events[c], "script_started")) = 2
        /\ Len(OfType(events[c], "script_completed")) = 1
        /\ Len(OfType(events[c], "script_output")) >= 2
        /\ Last(events[c]).type = "script_output"

\* every record written so far, also in a file that is being rewritten
Records == {file.text[i].val[1] : i \in {j \in DOMAIN file.text : file.text[j].tok = "obj"}}

\* C7: every record in the history file, and every completed event, has
\* status passed when its exit code is 0 and status failed otherwise.
C7_StatusIffExit ==
    /\ \A r \in Records :
          /\ r.status \in {"passed", "failed"}
          /\ r.status = "passed" <=> r.exit_code = 0
    /\ \A c \in Callers : \A i \in DOMAIN events[c] :
          events[c][i].type = "script_completed" =>
              /\ events[c][i].status \in {"passed", "failed"}
              /\ events[c][i].status = "passed" <=> events[c][i].exit_code = 0

\* the log holds a passed and a failed record
C7_Witness ==
    /\ \E r \in Records : r.exit_code = 0
    /\ \E r \in Records : r.exit_code /= 0
    /\ \E c \in Callers :
          events[c] /= <<>> /\ Last(events[c]).type = "script_completed"

\* the ids of the critical catalog entries, in catalog order
CriticalIds ==
    LET Test(d) == d.critical
        crit == SelectSeq(catalog, Test)
    IN  [i \in 1..Len(crit) |-> crit[i].id]

\* C8: a run_all request with skip_non_critical announces as total the
\* number of critical catalog entries, emits no started event, launches no
\* process and writes no record for a non-critical entry, enters the
\* critical entries in catalog order, and has entered all of them when it
\* is done; on the catalog of the source the selection is its first four
\* entries.
C8_SkipNonCritical ==
    /\ scripts_to_run(VERIFICATION_SCRIPTS, TRUE) =
          <<"pre-deployment", "config-validation", "service-health", "security-tests">>
    /\ \A c \in Callers :
        (request[c].kind = "run_all" /\ request[c].skip_non_critical) =>
            /\ events[c][1] = AllStarted(Len(CriticalIds))
            /\ \A i \in DOMAIN events[c] :
                   events[c][i].type = "script_started" =>
                       catalog[Pos(events[c][i].script_id)].critical
            /\ \A i \in DOMAIN launched[c] :
                   catalog[Pos(launched[c][i].script_id)].critical
            /\ \A i \in DOMAIN Added(c) : catalog[Pos(Added(c)[i].script_id)].critical
            /\ IsPrefix(Entered(c), CriticalIds)
            /\ pc[c] = "idle" => Entered(c) = CriticalIds

\* a finished skip_non_critical batch over a catalog with two critical
\* entries around a non-critical one
C8_Witness ==
    \E c \in Callers :
        /\ request[c].kind = "run_all"
        /\ request[c].skip_non_critical
        /\ pc[c] = "idle"
        /\ Len(CriticalIds) = 2
        /\ Len(catalog) = 3
        /\ Len(OfType(events[c], "script_completed")) = 2

\* C9: in a run_all request the number of scripts entered plus the number
\* still queued is the number selected, whatever the outcomes so far; the
\* request is done exactly when all_completed has been emitted; then every
\* selected script has been entered, all_completed is the last event and
\* occurs once, all_started is the first, and the event before
\* all_completed is the terminal event of the last script.
C9_BatchCompletes ==
    \A c \in Callers :
        request[c].kind = "run_all" =>
            LET evs == events[c]
                todo == IF request[c].skip_non_critical THEN CriticalIds
                        ELSE [i \in 1..Len(catalog) |-> catalog[i].id]
            IN  /\ evs[1].type = "all_started"
                /\ Len(OfType(evs, "all_started")) = 1
                /\ IsPrefix(Entered(c), todo)
                /\ Len(Entered(c)) + Len(queue[c]) = Len(todo)
                /\ Len(OfType(evs, "all_completed")) = IF pc[c] = "idle" THEN 1 ELSE 0
                /\ pc[c] = "idle" =>
                       /\ Entered(c) = todo
                       /\ Last(evs) = AllCompleted
                       /\ IsTerminal(evs[Len(evs) - 1])

\* a finished batch in which a script after a failed one and a script after
\* an execution error or a missing file have run
C9_Witness ==
    \E c \in Callers :
        /\ request[c].kind = "run_all"
        /\ pc[c] = "idle"
        /\ Len(Entered(c)) >= 2
        /\ \/ events[c][2].type = "error"
           \/ \E i \in DOMAIN events[c] :
                 /\ events[c][i].type = "script_completed"
                 /\ events[c][i].status = "failed"
                 /\ i < Len(events[c]) - 1
        /\ Last(events[c]) = AllCompleted

\* the last run of caller c launched a process, read all its output and
\* has returned
RunFinished(c) ==
    /\ pc[c] \in {"idle", "next"}
    /\ launched[c] /= <<>>
    /\ Last(launched[c]).script_id = script_id[c]
    /\ Last(launched[c]).spawned
    /\ ~Last(launched[c]).behaviour.readerr

\* the lines the process of the last run of caller c printed
Printed(c) == Last(launched[c]).behaviour.lines

Stripped(lines) == [i \in 1..Len(lines) |-> rstrip(lines[i])]

\* C6 as stated: after a run whose process printed L1..Ln, the events with
\* its script id are started, one output event per line with exactly that
\* line, completed, and the output of its record split on newline is
\* L1..Ln, the empty sequence when n = 0.
C6_Original ==
    \A c \in Callers :
        RunFinished(c) =>
            LET id == script_id[c]
                L == Printed(c)
            IN  /\ EventsOf(c, id) =
                       <<Started(id)>> \o [i \in 1..Len(L) |-> Output(id, L[i])]
                           \o <<Completed(id, Last(Log).status, Last(Log).exit_code)>>
                /\ Last(Log).script_id = id
                /\ split(Last(Log).output) = L

\* C6: after a run whose process printed L1..Ln, the events with its
\* script id are started, one output event per line with that line
\* stripped of trailing whitespace, in order, and completed; the output of
\* its record is the stripped lines joined by newline, which split on
\* newline gives the stripped lines back when n >= 1 and is the empty
\* string, splitting to one empty line, when n = 0.
C6_Lines ==
    \A c \in Callers :
        RunFinished(c) =>
            LET id == script_id[c]
                L == Stripped(Printed(c))
            IN  /\ EventsOf(c, id) =
                       <<Started(id)>> \o [i \in 1..Len(L) |-> Output(id, L[i])]
                           \o <<Completed(id, Last(Log).status, Last(Log).exit_code)>>
                /\ Last(Log).script_id = id
                /\ Last(Log).output = join(L)
                /\ L /= <<>> => split(Last(Log).output) = L
                /\ L = <<>> => Last(Log).output = <<>> /\ split(Last(Log).output) = << <<>> >>

\* a finished run whose process printed two different lines
C6_Witness ==
    \E c \in Callers :
        /\ RunFinished(c)
        /\ Len(Printed(c)) = 2
        /\ Printed(c)[1] /= Printed(c)[2]

\* C10: with the two-entry catalog A (critical), B (non-critical) and an
\* empty history, a run_all without skipping in which A prints "ok" and
\* exits 0 and B prints "bad" and exits 2 emits all_started{2}, started A,
\* output A "ok", completed A passed 0, started B, output B "bad",
\* completed B failed 2, all_completed, and the statistics of the log are
\* then 2 runs, 1 passed, 1 failed, currently 1 passed, 1 failed, 0 never
\* run.
C10_Scenario ==
    \A c \in Callers :
        ( /\ catalog = ScenarioCatalog
          /\ request[c].kind = "run_all"
          /\ ~request[c].skip_non_critical
          /\ pc[c] = "idle"
          /\ LogOf(before[c]) = <<>>
          /\ launched[c] =
                << [script_id |-> "A", spawned |-> TRUE,
                    behaviour |-> [lines |-> <<ok>>, exit |-> 0, readerr |-> FALSE]],
                   [script_id |-> "B", spawned |-> TRUE,
                    behaviour |-> [lines |-> <<bad>>, exit |-> 2, readerr |-> FALSE]] >> )
        => /\ events[c] =
                << AllStarted(2),
                   Started("A"), Output("A", ok), Completed("A", "passed", 0),
                   Started("B"), Output("B", bad), Completed("B", "failed", 2),
                   AllCompleted >>
           /\ ~load_history(file).raised
           /\ get_stats(Log, catalog) =
                [total_runs |-> 2, total_passed |-> 1, total_failed |-> 1,
                 passed |-> 1, failed |-> 1, never_run |-> 0, total_checks |-> 2]

\* the scenario has been run to its end
C10_Witness ==
    \E c \in Callers :
        /\ catalog = ScenarioCatalog
        /\ request[c].kind = "run_all"
        /\ ~request[c].skip_non_critical
        /\ pc[c] = "idle"
        /\ LogOf(before[c]) = <<>>
        /\ Len(launched[c]) = 2
        /\ launched[c][1].behaviour = [lines |-> <<ok>>, exit |-> 0, readerr |-> FALSE]
        /\ launched[c][2].behaviour = [lines |-> <<bad>>, exit |-> 2, readerr |-> FALSE]
        /\ launched[c][1].spawned /\ launched[c][2].spawned
        /\ Len(Log) = 2

Range(s) == {s[i] : i \in DOMAIN s}

\* C4: when no handler is running, the log holds the record of every
\* run_script request that ended with a completed event, and every record
\* that was in the log when that request arrived.
C4_BothRecorded ==
    \A c \in Callers :
        ( /\ Idle
          /\ request[c].kind = "run_script"
          /\ events[c] /= <<>>
          /\ Last(events[c]).type = "script_completed" )
        => /\ ~load_history(file).raised
           /\ history_entry[c] \in Range(Log)
           /\ Range(LogOf(before[c])) \subseteq Range(Log)

\* C5: no query finds the history file unreadable.
C5_NoTruncatedLoad == response.status /= 500

\* the last run of caller c failed while executing (Popen raised, or reading
\* the output raised) and the handler has returned
ExecFailed(c) ==
    /\ pc[c] \in {"idle", "next"}
    /\ launched[c] /= <<>>
    /\ Last(launched[c]).script_id = script_id[c]
    /\ ~Last(launched[c]).spawned \/ Last(launched[c]).behaviour.readerr

\* C11: after a run whose launch raised or whose output could not be read,
\* the events with its script id are started, the output events of the
\* lines read before the failure, and one error event that carries the
\* script id and the text of the exception; there is no completed event for
\* it; no record of the run is in the log, the log holds one record per
\* completed event of the request, and after a run_script request the
\* history file is the file from before the request.
C11_ExecutionFails ==
    \A c \in Callers :
        ExecFailed(c) =>
            LET id == script_id[c]
                run == Last(launched[c])
                L == IF run.spawned THEN Stripped(run.behaviour.lines) ELSE <<>>
                e == IF run.spawned THEN "IOError" ELSE "OSError"
            IN  /\ EventsOf(c, id) =
                       <<Started(id)>> \o [i \in 1..Len(L) |-> Output(id, L[i])]
                           \o <<ErrorRaised(id, e)>>
                /\ OfType(EventsOf(c, id), "script_completed") = <<>>
                /\ ~load_history(file).raised
                /\ \A r \in Range(Log) : r.timestamp /= start_time[c]
                /\ Len(Added(c)) = Len(OfType(events[c], "script_completed"))
                /\ request[c].kind = "run_script" => file = before[c]

\* reading the output raised after a line had been read, with a record
\* already in the log
C11_Witness ==
    \E c \in Callers :
        /\ ExecFailed(c)
        /\ Last(launched[c]).spawned
        /\ Last(launched[c]).behaviour.lines /= <<>>
        /\ Log /= <<>>

\* the file exists and json.load does not accept its text
Unreadable(f) == f.exists /\ ~Parses(f.text)

\* C12: load_history raises on a history file that exists and cannot be
\* parsed, and returns the empty list without raising only when the file
\* does not exist; while the file a request found is unreadable the file
\* stays exactly as it was; and a run of that request whose process exited
\* ends with one error event that carries its script id and no completed
\* event.
C12_UnreadableKept ==
    /\ Unreadable(file) => load_history(file).raised
    /\ load_history(file) = [raised |-> FALSE, value |-> <<>>] => ~file.exists
    /\ \A c \in Callers :
          Unreadable(before[c]) =>
              /\ file = before[c]
              /\ RunFinished(c) =>
                     /\ Last(EventsOf(c, script_id[c])) =
                            ErrorRaised(script_id[c], "JSONDecodeError")
                     /\ OfType(EventsOf(c, script_id[c]), "script_completed") = <<>>
                     /\ Len(OfType(EventsOf(c, script_id[c]), "error")) = 1

\* a run whose process printed a line and exited found a history file cut
\* off after its first record, and has returned
C12_Witness ==
    \E c \in Callers :
        /\ RunFinished(c)
        /\ Printed(c) /= <<>>
        /\ file.exists
        /\ file.text = <<Open, Obj(StoredEntry)>>

\* C13: the list handed to save_history is the log load_history returned,
\* which is the log on disk at that moment, followed by the new record; once
\* save_history has returned, load_history returns that list without
\* raising: one record longer, the new record last, the earlier records
\* unchanged and in order; for a run_script request that is the log from
\* before the request followed by the record, and just the record when the
\* file did not exist.
C13_RoundTrip ==
    \A c \in Callers :
        /\ pc[c] = "save" =>
               /\ ~load_history(file).raised
               /\ history[c] = Append(Log, history_entry[c])
        /\ pc[c] = "saved" =>
               /\ ~load_history(file).raised
               /\ Log = history[c]
               /\ Last(Log) = history_entry[c]
               /\ request[c].kind = "run_script" =>
                      /\ Len(Log) = Len(LogOf(before[c])) + 1
                      /\ SubSeq(Log, 1, Len(Log) - 1) = LogOf(before[c])
                      /\ ~before[c].exists => Log = <<history_entry[c]>>

\* save_history has returned after adding a record to a log that had one
C13_Witness ==
    \E c \in Callers :
        /\ pc[c] = "saved"
        /\ request[c].kind = "run_script"
        /\ Len(LogOf(before[c])) = 1
        /\ Len(Log) = 2

\* C14: whenever the history file can be read, the log holds a record for
\* every completed event emitted for the current request of a caller, with
\* the script id, status and exit code of the event, and the record of the
\* run whose completed event was emitted last.
C14_CompletedRecorded ==
    ~load_history(file).raised =>
        \A c \in Callers :
            /\ \A i \in DOMAIN events[c] :
                   events[c][i].type = "script_completed" =>
                       \E r \in Range(Log) :
                           /\ r.script_id = events[c][i].script_id
                           /\ r.status = events[c][i].status
                           /\ r.exit_code = events[c][i].exit_code
            /\ (events[c] /= <<>> /\ Last(events[c]).type = "script_completed") =>
                   history_entry[c] \in Range(Log)

\* the script ids that have a record in a log
IdsOf(log) == {log[i].script_id : i \in DOMAIN log}

\* C15: never_run is the catalog size when the log is empty; when a record
\* is appended to the log, never_run of the new log is never_run of the old
\* log minus one if the record's script had no record, and never_run of
\* the old log if it had one; and never_run of the log on disk is the
\* catalog size minus the number of scripts with a record.
C15_NeverRun ==
    /\ ~load_history(file).raised =>
           /\ Log = <<>> => get_stats(Log, catalog).never_run = Len(catalog)
           /\ get_stats(Log, catalog).never_run =
                  Len(catalog) - Cardinality(IdsOf(Log))
    /\ \A c \in Callers :
          pc[c] = "save" =>
              LET old == get_stats(Log, catalog).never_run
                  new == get_stats(history[c], catalog).never_run
              IN  /\ history[c] = Append(Log, history_entry[c])
                  /\ IF history_entry[c].script_id \in IdsOf(Log)
                     THEN new = old
                     ELSE new = old - 1

\* a record is about to be added for a script that already has one
C15_Witness ==
    \E c \in Callers :
        /\ pc[c] = "save"
        /\ history_entry[c].script_id \in IdsOf(Log)
        /\ Len(catalog) >= 2

\* C16: get_latest_results holds, for every script id with a record in the
\* log, exactly the last record of the log with that id, and nothing for
\* a script id without a record; when a record is appended, the new result
\* is the old result with the entry of the record's script replaced by the
\* record (or added), every other entry unchanged.
C16_Latest ==
    /\ ~load_history(file).raised =>
           LET latest == get_latest_results(Log)
           IN  \A id \in CatalogIds(catalog) \cup {UnknownId} :
                   LET idx == {i \in DOMAIN Log : Log[i].script_id = id}
                       of_id == {e \in latest : e.script_id = id}
                   IN  IF idx = {} THEN of_id = {}
                       ELSE of_id = {Log[CHOOSE i \in idx : \A j \in idx : j <= i]}
    /\ \A c \in Callers :
          pc[c] = "save" =>
              get_latest_results(history[c]) =
                  {e \in get_latest_results(Log) :
                      e.script_id /= history_entry[c].script_id}
                      \cup {history_entry[c]}

\* with several scripts in the catalog, a script that has a record is about
\* to get a second one with a different status
C16_Witness ==
    \E c \in Callers :
        /\ pc[c] = "save"
        /\ Len(Log) = 1
        /\ history_entry[c].script_id = Log[1].script_id
        /\ history_entry[c].status /= Log[1].status
        /\ Len(catalog) >= 2

\* C18: whenever the history file can be read, the counters get_stats
\* computes from it satisfy total_passed + total_failed = total_runs,
\* passed + failed + never_run = total_checks, passed <= total_passed,
\* failed <= total_failed and never_run >= 0, and total_checks is the
\* catalog size.
C18_CountersConsistent ==
    ~load_history(file).raised =>
        LET s == get_stats(Log, catalog)
        IN  /\ s.total_passed + s.total_failed = s.total_runs
            /\ s.passed + s.failed + s.never_run = s.total_checks
            /\ s.passed <= s.total_passed
            /\ s.failed <= s.total_failed
            /\ s.never_run >= 0
            /\ s.total_checks = Len(catalog)
            /\ s.total_runs = Len(Log)

\* a script has passed and then failed, so fewer scripts pass now than runs
\* have passed, and another script has never run
C18_Witness ==
    /\ Len(Log) = 2
    /\ Log[1].script_id = Log[2].script_id
    /\ Log[1].status = "passed"
    /\ Log[2].status = "failed"
    /\ get_stats(Log, catalog).passed < get_stats(Log, catalog).total_passed
    /\ get_stats(Log, catalog).never_run >= 1

\* caller c is inside handle_run_script, after the started event
Running(c) == pc[c] \in {"popen", "read", "load", "save", "write", "saved"}

\* the positions of the terminal events in a sequence of events
Terminals(evs) == {i \in DOMAIN evs : IsTerminal(evs[i])}

\* C17: for every script id with a started event in the current request,
\* the events with that id begin with started; they hold no terminal event
\* while the run is inside the handler and exactly one, completed or error,
\* once it has returned, and that one is the last event with the id; the
\* handler leaves the read loop only when the process's output has ended,
\* so a run whose process never ends stays without a terminal event; and
\* when every process ends, every run that has started returns.
C17_OneTerminalEvent ==
    /\ [](\A c \in Callers : \A id \in CatalogIds(catalog) :
             LET evs == EventsOf(c, id)
             IN  evs /= <<>> =>
                     /\ evs[1] = Started(id)
                     /\ Len(OfType(evs, "script_started")) = 1
                     /\ Cardinality(Terminals(evs)) =
                            IF id = script_id[c] /\ Running(c) THEN 0 ELSE 1
                     /\ Terminals(evs) \subseteq {Len(evs)})
    /\ [][\A c \in Callers :
             (pc[c] = "read" /\ pc'[c] /= "read") => process[c].lines = <<>>]_vars
    /\ \A c \in Callers : Running(c) ~> ~Running(c)

\* a batch in which one run ended with a completed event and another with
\* an error event after its started event
C17_Witness ==
    \E c \in Callers :
        /\ pc[c] = "idle"
        /\ Len(OfType(events[c], "script_started")) = 2
        /\ Len(OfType(events[c], "script_completed")) = 1
        /\ \E i \in DOMAIN events[c] :
              events[c][i].type = "error" /\ "script_id" \in DOMAIN events[c][i]

\* C19: a step that answers a query (get_history, get_script_history,
\* get_scripts, which shows get_latest_results, or get_stats) leaves the
\* history file, the events of every caller and all other state as they
\* are; and when the step before it answered the same query with the same
\* arguments, it gives the same status and the same body.
C19_QueriesReadOnly ==
    [][response'.status /= 0 =>
           /\ file' = file
           /\ events' = events
           /\ <<pc, request, queue, history, launched, nruns, clock>>' =
                  <<pc, request, queue, history, launched, nruns, clock>>
           /\ (response.status /= 0 /\ response'.query = response.query) =>
                  /\ response'.status = response.status
                  /\ response'.body = response.body]_vars

\* get_history with limit 1 has answered with the newer of two records
C19_Witness ==
    /\ response.status = 200
    /\ response.query = [name |-> "history", script_id |-> "", limit |-> 1]
    /\ Len(Log) = 2
    /\ response.body = <<Log[2]>>

====
